---- MODULE Spec2Model ----
(***************************************************************************)
(* Model of the E1.33 monitor (tools/e133/e133-monitor.cpp): the registry  *)
(* of NodeTCPState entries kept by SimpleE133Monitor, the handlers that    *)
(* the TCP connector, the health checked connections, the sockets and the  *)
(* inflator chain call back into, and the select server's terminate flag.  *)
(*                                                                         *)
(* Two specifications are given.  Spec is the program: main() parses the   *)
(* targets, adds them or asks for an SLP discovery, and runs the reactor,  *)
(* which drives the handlers through the connector, the sockets in the     *)
(* read set, the health check timers and the queued discovery result;      *)
(* when Run() returns the monitor is destroyed.  SpecCalls invokes the     *)
(* handlers directly, in any order and with any argument, the way a unit   *)
(* test of the class can.                                                  *)
(***************************************************************************)
EXTENDS Integers, FiniteSets, Sequences, TLC

(* ------------------------------ bounds --------------------------------- *)
NumAddrs == 2
MaxSockets == 2
MaxFailures == 2
MaxTargets == 2
MaxUrls == 2

(* --------------------------- program constants ------------------------- *)
heartbeat_interval == 2
DeadlineFactor == 2

NULL == 0
Addrs == 1..NumAddrs
SockIds == 1..(NumAddrs * MaxSockets)
Deadline == DeadlineFactor * heartbeat_interval

VARIABLES
  m_ip_map,          \* hash_map ip -> NodeTCPState (a function on the tracked ips)
  nodes_created,     \* per ip: number of NodeTCPState objects constructed for it
  sockets,           \* every TcpSocket the connector has created
  hccs,              \* every E133HealthCheckedConnection constructed
  read_descriptors,  \* m_ss read descriptor set
  m_terminate,       \* m_ss terminate flag
  running,           \* m_ss.Run() was entered and has not returned
  stop_requested,    \* Stop() was called
  connector,         \* m_connector: per ip state of the connection attempts
  crashed,           \* the process died on an invalid access
  silence,           \* per health check: ticks since HeartbeatReceived() was last invoked
  main,              \* main(): where it is, the target tokens and addresses
  slp,               \* m_slp_thread: the discovery and its result
  last               \* the handler that ran last, with what it saw and did

vars == <<m_ip_map, nodes_created, sockets, hccs, read_descriptors,
          m_terminate, running, stop_requested, connector, crashed, silence,
          main, slp, last>>

(* The program state the handlers work on, as one record. *)
State ==
  [map |-> m_ip_map, nodes |-> nodes_created, sockets |-> sockets,
   hccs |-> hccs, rd |-> read_descriptors, term |-> m_terminate,
   conn |-> connector, crashed |-> crashed, hb |-> NULL, fwd |-> 0,
   nullacc |-> FALSE, ops |-> << >>]

(* NodeTCPState(): socket(NULL), health_checked_connection(NULL),
   connection_attempts(0) *)
NodeTCPState(id) ==
  [id |-> id, socket |-> NULL, health_checked_connection |-> NULL,
   connection_attempts |-> 0]

NoSocket == [st |-> "unused", peer |-> NULL, close_called |-> FALSE,
             on_close |-> NULL, on_data |-> FALSE]
NoHcc == [st |-> "unused", node |-> NULL, socket |-> NULL, since |-> 0,
          fired |-> 0]

Tracked(map, ip) == ip \in DOMAIN map

(* The entry of ip exists and holds no socket. *)
NullSocket(map, ip) == Tracked(map, ip) /\ map[ip].socket = NULL

(* ------------------------- the TCP connector --------------------------- *)
(* state: "none" (not registered), "scheduled" (an attempt is scheduled on
   a timer), "inflight" (a non-blocking connect is in progress),
   "connected" (the last attempt succeeded, nothing is scheduled).
   failures counts the failed attempts, adds the AddEndpoint calls. *)
NoEndpoint == [state |-> "none", failures |-> 0, adds |-> 0]

(* Registers the target; schedules an attempt unless one is scheduled or
   in flight already. *)
AddEndpoint(conn, ip) ==
  IF conn[ip].state \in {"none", "connected"}
    THEN [conn EXCEPT ![ip].state = "scheduled", ![ip].adds = @ + 1]
    ELSE [conn EXCEPT ![ip].adds = @ + 1]

(* ------------------- the health checked connection --------------------- *)
HccConstruct(node, s) ==
  [st |-> "setup", node |-> node, socket |-> s, since |-> 0, fired |-> 0]

(* The destructor cancels the timers of the health check. *)
HccDelete(h_tab, h) ==
  IF h = NULL THEN h_tab
  ELSE [h_tab EXCEPT ![h].st = "deleted", ![h].since = 0]

(* HeartbeatReceived() that leaves the liveness deadline where it was. *)
HeartbeatReceived_NoReset(h_tab, h) == h_tab

HeartbeatReceived(h_tab, h) ==
  IF h_tab[h].st = "armed" THEN [h_tab EXCEPT ![h].since = 0] ELSE h_tab

(* ----------------------------- the sockets ----------------------------- *)
SocketClose(s_tab, s) == [s_tab EXCEPT ![s].close_called = TRUE]

SocketDelete(s_tab, s) ==
  IF s = NULL THEN s_tab
  ELSE [s_tab EXCEPT ![s].st = "deleted", ![s].on_close = NULL,
                     ![s].on_data = FALSE]

(* The operations on the objects as a handler performs them, each one
   noted in ops in the order of the calls.  delete does nothing for NULL. *)
Op(name, id) == [op |-> name, id |-> id]

(* What a call made on, or handed, a NULL socket does: the process dies
   (Crash) or the call returns (NULL). *)
Crash == -1
NullOutcomes == {Crash, NULL}

DeleteHcc(S, h) ==
  IF h = NULL THEN S
  ELSE [S EXCEPT !.hccs = HccDelete(@, h),
                 !.ops = Append(@, Op("delete_hcc", h))]

(* m_ss.RemoveReadDescriptor(socket): the call is made whatever socket is;
   handed NULL, the select server dies or returns (ub). *)
RemoveReadDescriptor(S, s, ub) ==
  LET S1 == [S EXCEPT !.rd = @ \ {s}, !.ops = Append(@, Op("remove_rd", s))]
  IN IF s # NULL THEN S1
     ELSE [S1 EXCEPT !.nullacc = TRUE, !.crashed = @ \/ ub = Crash]

CloseSocket(S, s) ==
  [S EXCEPT !.sockets = SocketClose(@, s), !.ops = Append(@, Op("close", s))]

DeleteSocket(S, s) ==
  IF s = NULL THEN S
  ELSE [S EXCEPT !.sockets = SocketDelete(@, s),
                 !.ops = Append(@, Op("delete_socket", s))]

(* ------------------------ SimpleE133Monitor ---------------------------- *)
(* AddIP without the lookup of the ip: every call makes an entry. *)
AddIP_NoLookup(S, ip) ==
  LET node_state == [NodeTCPState(S.nodes[ip] + 1) EXCEPT
                       !.connection_attempts = @ + 1]
  IN [S EXCEPT !.nodes[ip] = @ + 1,
               !.map = (ip :> node_state) @@ S.map,
               !.conn = AddEndpoint(S.conn, ip)]

AddIP(S, ip) ==
  IF Tracked(S.map, ip) THEN S
  ELSE LET node_state == [NodeTCPState(S.nodes[ip] + 1) EXCEPT
                            !.connection_attempts = @ + 1]
       IN [S EXCEPT !.nodes[ip] = @ + 1,
                    !.map = (ip :> node_state) @@ S.map,
                    !.conn = AddEndpoint(S.conn, ip)]

(* SocketClosed that leaves the socket in the read set. *)
SocketClosed_KeepInReadSet(S, ip, ub) ==
  IF ~Tracked(S.map, ip) THEN S
  ELSE LET S1 == [DeleteHcc(S, S.map[ip].health_checked_connection) EXCEPT
                    !.map[ip].health_checked_connection = NULL]
           S2 == DeleteSocket(S1, S1.map[ip].socket)
       IN [S2 EXCEPT !.map[ip].socket = NULL, !.term = TRUE]

(* SocketClosed that leaves the health check alone. *)
SocketClosed_KeepHcc(S, ip, ub) ==
  IF ~Tracked(S.map, ip) THEN S
  ELSE LET socket == S.map[ip].socket
           S2 == RemoveReadDescriptor(S, socket, ub)
       IN IF S2.crashed THEN S2
          ELSE [DeleteSocket(S2, socket) EXCEPT
                  !.map[ip].socket = NULL, !.term = TRUE]

(* SocketClosed that destroys the socket first, then the health check, and
   takes the socket out of the read set last. *)
SocketClosed_SocketFirst(S, ip, ub) ==
  IF ~Tracked(S.map, ip) THEN S
  ELSE LET socket == S.map[ip].socket
           S1 == DeleteSocket(S, socket)
           S2 == [DeleteHcc(S1, S.map[ip].health_checked_connection) EXCEPT
                    !.map[ip].health_checked_connection = NULL]
           S3 == RemoveReadDescriptor(S2, socket, ub)
       IN IF S3.crashed THEN S3
          ELSE [S3 EXCEPT !.map[ip].socket = NULL, !.term = TRUE]

(* ub: what RemoveReadDescriptor does when the entry's socket is NULL. *)
SocketClosed(S, ip, ub) ==
  IF ~Tracked(S.map, ip) THEN S
  ELSE LET S1 == [DeleteHcc(S, S.map[ip].health_checked_connection) EXCEPT
                    !.map[ip].health_checked_connection = NULL]
           socket == S1.map[ip].socket
           S2 == RemoveReadDescriptor(S1, socket, ub)
       IN IF S2.crashed THEN S2
          ELSE [DeleteSocket(S2, socket) EXCEPT
                  !.map[ip].socket = NULL, !.term = TRUE]

(* node_state->socket->GetPeer() through a NULL socket is undefined: the
   process dies, or the call goes on with whatever peer_address holds (ub);
   ub_rd is what RemoveReadDescriptor does in the SocketClosed that follows. *)
UbOutcomes == {Crash} \cup Addrs \cup {NULL}

(* SocketUnhealthy that destroys the health check and leaves the socket to
   whoever closes it. *)
SocketUnhealthy_HccOnly(S, node, ub, ub_rd) ==
  [DeleteHcc(S, S.map[node].health_checked_connection) EXCEPT
     !.map[node].health_checked_connection = NULL]

SocketUnhealthy(S, node, ub, ub_rd) ==
  LET S1 == [DeleteHcc(S, S.map[node].health_checked_connection) EXCEPT
               !.map[node].health_checked_connection = NULL]
      socket == S.map[node].socket
  IN IF socket # NULL THEN SocketClosed(S1, S.sockets[socket].peer, ub_rd)
     ELSE IF ub = Crash THEN [S1 EXCEPT !.nullacc = TRUE, !.crashed = TRUE]
     ELSE SocketClosed([S1 EXCEPT !.nullacc = TRUE], ub, ub_rd)

(* The health check OnTCPConnect constructs on a NULL socket: an object of
   its own, in no slot of the table of the sockets' health checks. *)
HccOfNullSocket == -2

(* OnTCPConnect for a tracked address, handed no socket.  The slot of the
   socket is set to NULL, the health check is constructed on the NULL socket
   and Setup() is tried.  When Setup() fails the health check is deleted and
   socket->Close() goes through NULL; when it succeeds the health check is
   stored in the entry, over whatever was there, and socket->SetOnClose()
   goes through NULL.  The process dies at that call. *)
OnTCPConnectNoSocket(S, ip_address, setup_ok) ==
  LET S1 == [S EXCEPT !.map[ip_address].socket = NULL,
                      !.ops = Append(@, Op("new_hcc", NULL))]
  IN IF ~setup_ok
       THEN [S1 EXCEPT !.ops = Append(@, Op("delete_hcc", NULL)),
                       !.nullacc = TRUE, !.crashed = TRUE]
       ELSE [S1 EXCEPT
               !.map[ip_address].health_checked_connection = HccOfNullSocket,
               !.nullacc = TRUE, !.crashed = TRUE]

(* OnTCPConnect that stores the health check in the entry before Setup()
   is tried, and leaves it there when Setup() fails. *)
OnTCPConnect_HccBeforeSetup(S, ip_address, socket, setup_ok) ==
  IF ~Tracked(S.map, ip_address)
    THEN [S EXCEPT !.sockets = SocketDelete(SocketClose(@, socket), socket)]
  ELSE
    LET S1 == [S EXCEPT !.map[ip_address].socket = socket,
                        !.hccs[socket] = HccConstruct(ip_address, socket),
                        !.map[ip_address].health_checked_connection = socket]
    IN IF ~setup_ok
         THEN [S1 EXCEPT
                 !.hccs = HccDelete(@, socket),
                 !.sockets = SocketDelete(SocketClose(@, socket), socket),
                 !.map[ip_address].socket = NULL]
         ELSE [S1 EXCEPT
                 !.hccs[socket].st = "armed",
                 !.sockets[socket].on_close = ip_address,
                 !.sockets[socket].on_data = TRUE,
                 !.rd = @ \cup {socket}]

(* OnTCPConnect that returns for an untracked address without closing and
   deleting the socket. *)
OnTCPConnect_LeakUntracked(S, ip_address, socket, setup_ok) ==
  IF ~Tracked(S.map, ip_address)
    THEN S
  ELSE
    LET S1 == [S EXCEPT !.map[ip_address].socket = socket,
                        !.hccs[socket] = HccConstruct(ip_address, socket)]
    IN IF ~setup_ok
         THEN [S1 EXCEPT
                 !.hccs = HccDelete(@, socket),
                 !.sockets = SocketDelete(SocketClose(@, socket), socket),
                 !.map[ip_address].socket = NULL]
         ELSE [S1 EXCEPT
                 !.hccs[socket].st = "armed",
                 !.map[ip_address].health_checked_connection = socket,
                 !.sockets[socket].on_close = ip_address,
                 !.sockets[socket].on_data = TRUE,
                 !.rd = @ \cup {socket}]

(* OnTCPConnect that only destroys the health check when Setup() fails:
   the socket stays open and stays in the entry. *)
OnTCPConnect_KeepSocketOnFailure(S, ip_address, socket, setup_ok) ==
  IF ~Tracked(S.map, ip_address)
    THEN IF socket # NULL THEN DeleteSocket(CloseSocket(S, socket), socket)
         ELSE S
  ELSE IF socket = NULL
    THEN OnTCPConnectNoSocket(S, ip_address, setup_ok)
  ELSE
    LET S1 == [S EXCEPT !.map[ip_address].socket = socket,
                        !.hccs[socket] = HccConstruct(ip_address, socket),
                        !.ops = Append(@, Op("new_hcc", socket))]
    IN IF ~setup_ok
         THEN DeleteHcc(S1, socket)
         ELSE [S1 EXCEPT
                 !.hccs[socket].st = "armed",
                 !.map[ip_address].health_checked_connection = socket,
                 !.sockets[socket].on_close = ip_address,
                 !.sockets[socket].on_data = TRUE,
                 !.rd = @ \cup {socket},
                 !.ops = @ \o <<Op("set_on_close", socket),
                                Op("set_on_data", socket),
                                Op("add_rd", socket)>>]

(* With no socket (NULL) nothing is closed for an untracked address; for a
   tracked one see OnTCPConnectNoSocket. *)
OnTCPConnect(S, ip_address, socket, setup_ok) ==
  IF ~Tracked(S.map, ip_address)
    THEN IF socket # NULL THEN DeleteSocket(CloseSocket(S, socket), socket)
         ELSE S
  ELSE IF socket = NULL
    THEN OnTCPConnectNoSocket(S, ip_address, setup_ok)
  ELSE
    LET S1 == [S EXCEPT !.map[ip_address].socket = socket,
                        !.hccs[socket] = HccConstruct(ip_address, socket),
                        !.ops = Append(@, Op("new_hcc", socket))]
    IN IF ~setup_ok
         THEN [DeleteSocket(CloseSocket(DeleteHcc(S1, socket), socket), socket)
                 EXCEPT !.map[ip_address].socket = NULL]
         ELSE [S1 EXCEPT
                 !.hccs[socket].st = "armed",
                 !.map[ip_address].health_checked_connection = socket,
                 !.sockets[socket].on_close = ip_address,
                 !.sockets[socket].on_data = TRUE,
                 !.rd = @ \cup {socket},
                 !.ops = @ \o <<Op("set_on_close", socket),
                                Op("set_on_data", socket),
                                Op("add_rd", socket)>>]

(* E133DataReceived with the transport test the wrong way round. *)
E133DataReceived_TransportFlipped(S, header) ==
  IF header.transport = "TCP" THEN S
  ELSE IF ~Tracked(S.map, header.source) THEN S
  ELSE LET h == S.map[header.source].health_checked_connection
       IN IF h # NULL
            THEN [S EXCEPT !.hccs = HeartbeatReceived(@, h), !.hb = h]
            ELSE S

(* E133DataReceived without the test of the transport. *)
E133DataReceived_AnyTransport(S, header) ==
  IF ~Tracked(S.map, header.source) THEN S
  ELSE LET h == S.map[header.source].health_checked_connection
       IN IF h # NULL
            THEN [S EXCEPT !.hccs = HeartbeatReceived(@, h), !.hb = h]
            ELSE S

(* header = [transport, source] *)
E133DataReceived(S, header) ==
  IF header.transport # "TCP" THEN S
  ELSE IF ~Tracked(S.map, header.source) THEN S
  ELSE LET h == S.map[header.source].health_checked_connection
       IN IF h # NULL
            THEN [S EXCEPT !.hccs = HeartbeatReceived(@, h), !.hb = h]
            ELSE S

EndpointRequest(S, header) == [S EXCEPT !.fwd = @ + 1]

(* ------------------------- the inflator chain -------------------------- *)
(* A frame read from a socket: its endpoint, and whether it decodes as a
   heartbeat frame, as a data frame, or does not decode. *)
Frames ==
  [endpoint : {0}, kind : {"heartbeat", "data", "malformed"}]
    \cup [endpoint : {1}, kind : {"data"}]
NoFrame == [endpoint |-> 0, kind |-> "none"]

(* The inflator chain that runs E133DataReceived for heartbeat frames only
   and hands every other endpoint 0 frame to EndpointRequest alone. *)
Dispatch_HeartbeatFramesOnly(S, header, frame) ==
  IF frame.kind = "malformed" \/ frame.endpoint # 0 THEN S
  ELSE IF frame.kind = "heartbeat" THEN E133DataReceived(S, header)
  ELSE EndpointRequest(S, header)

(* The handlers registered in the constructor.  E133DataReceived is the data
   callback of the DMP inflator: it is handed the transport header alone and
   runs for every frame the chain decodes, whatever the endpoint and whatever
   the frame carries.  EndpointRequest is the handler of endpoint 0, the
   only one registered: it runs in addition for an endpoint 0 frame that
   carries a payload, which a heartbeat frame does not.  A frame that does
   not decode reaches neither. *)
Dispatch(S, header, frame) ==
  IF frame.kind = "malformed" THEN S
  ELSE LET S1 == E133DataReceived(S, header)
       IN IF frame.endpoint = 0 /\ frame.kind # "heartbeat"
            THEN EndpointRequest(S1, header)
            ELSE S1

(* ---------------------------- SLP discovery ---------------------------- *)
(* A service URL as the SLP thread reports it: a text that ParseSlpUrl
   either rejects or splits into the UID and the address of the device. *)
MalformedUrl == [wellformed |-> FALSE, uid |-> "none", ip |-> NULL]
Urls == {MalformedUrl}
          \cup [wellformed : {TRUE}, uid : {"device", "broadcast"}, ip : Addrs]

ParseSlpUrl(url) == [ok |-> url.wellformed, uid |-> url.uid, ip |-> url.ip]
IsBroadcast(uid) == uid = "broadcast"

(* The loop over the urls that stops at the first url it cannot parse. *)
RECURSIVE DiscoveryLoop_BreakOnMalformed(_, _)
DiscoveryLoop_BreakOnMalformed(S, urls) ==
  IF urls = << >> THEN S
  ELSE LET parsed == ParseSlpUrl(Head(urls))
       IN IF ~parsed.ok THEN S
          ELSE IF IsBroadcast(parsed.uid)
            THEN DiscoveryLoop_BreakOnMalformed(S, Tail(urls))
          ELSE DiscoveryLoop_BreakOnMalformed(AddIP(S, parsed.ip), Tail(urls))

RECURSIVE DiscoveryLoop(_, _)
DiscoveryLoop(S, urls) ==
  IF urls = << >> THEN S
  ELSE LET parsed == ParseSlpUrl(Head(urls))
       IN IF ~parsed.ok THEN DiscoveryLoop(S, Tail(urls))
          ELSE IF IsBroadcast(parsed.uid) THEN DiscoveryLoop(S, Tail(urls))
          ELSE DiscoveryLoop(AddIP(S, parsed.ip), Tail(urls))

DiscoveryCallback(S, ok, urls) ==
  IF ok THEN DiscoveryLoop(S, urls) ELSE S

(* -------------------------- end of the monitor ------------------------- *)
(* ~NodeTCPState() { delete socket; } *)
NodeTCPStateDestructor(S, ip) == DeleteSocket(S, S.map[ip].socket)

(* The loop over m_ip_map; order is the order in which the iterator of the
   hash map visits the addresses, which the build decides. *)
RECURSIVE DeleteNodes(_, _)
DeleteNodes(S, order) ==
  IF order = << >> THEN S
  ELSE DeleteNodes(NodeTCPStateDestructor(S, Head(order)), Tail(order))

(* ~SimpleE133Monitor() up to m_ip_map.clear(): deletes every NodeTCPState
   and clears the map. *)
MonitorDestructor(S, order) ==
  [DeleteNodes(S, order) EXCEPT !.map = << >>]

(* ------------------------------- main() -------------------------------- *)
(* A token of the --targets list: the text of an address of Addrs, or a
   text that is no IPv4 address (0). *)
Tokens == 0..NumAddrs
FromString(token) ==
  [ok |-> token \in Addrs, ip |-> IF token \in Addrs THEN token ELSE NULL]

EX_UNAVAILABLE == 69
EX_OSFILE == 72

NoExit == -1

(* pc: "options", "help" (opts.help is looked at next), "targets", "init",
   "populate", "run" (Run() is the next call), "running", "destroy" (Run()
   has returned), "join" (the destructor of the monitor has cleared the map
   and waits in m_slp_thread.Join()), "exited". *)
NoMain == [pc |-> "options", help |-> FALSE, tokens |-> << >>,
           manual |-> FALSE, targets |-> << >>, discover |-> FALSE,
           usage |-> FALSE, exit |-> NoExit]

(* DisplayHelpAndExit(): prints the usage and calls exit(0). *)
DisplayHelpAndExit(m) == [m EXCEPT !.pc = "exited", !.usage = TRUE, !.exit = 0]
NoSlp == [state |-> "idle", ok |-> FALSE, urls |-> << >>]

(* --------------------------- initial state ----------------------------- *)
NoEvent == [op |-> "none", ip |-> NULL, socket |-> NULL, ok |-> TRUE,
            frame |-> NoFrame, hb |-> NULL, fwd |-> 0, nullacc |-> FALSE,
            silence |-> 0, ops |-> << >>, thread |-> "main",
            transport |-> "none", urls |-> << >>, want |-> {}]

Init ==
  /\ m_ip_map = << >>
  /\ nodes_created = [a \in Addrs |-> 0]
  /\ sockets = [s \in SockIds |-> NoSocket]
  /\ hccs = [s \in SockIds |-> NoHcc]
  /\ read_descriptors = {}
  /\ m_terminate = FALSE
  /\ running = FALSE
  /\ stop_requested = FALSE
  /\ connector = [a \in Addrs |-> NoEndpoint]
  /\ crashed = FALSE
  /\ silence = [s \in SockIds |-> 0]
  /\ main = NoMain
  /\ slp = NoSlp
  /\ last = [NoEvent EXCEPT !.op = "init"] @@ [pre |-> State]

(* The state after a handler has run, and the record of what ran. *)
Apply(S2, ev) ==
  /\ m_ip_map' = S2.map
  /\ nodes_created' = S2.nodes
  /\ sockets' = S2.sockets
  /\ hccs' = S2.hccs
  /\ read_descriptors' = S2.rd
  /\ m_terminate' = S2.term
  /\ connector' = S2.conn
  /\ crashed' = S2.crashed
  /\ UNCHANGED <<running, stop_requested>>
  /\ silence' = [s \in SockIds |->
                   IF S2.hb = s \/ S2.hccs[s].st # "armed" THEN 0 ELSE silence[s]]
  /\ last' = [ev EXCEPT !.hb = S2.hb, !.fwd = S2.fwd,
                        !.nullacc = S2.nullacc, !.ops = S2.ops]
               @@ [pre |-> State]

Commit(S2, ev) == Apply(S2, ev) /\ UNCHANGED <<main, slp>>

(* A step that leaves the monitor's objects alone. *)
Quiet(ev) ==
  /\ last' = ev @@ [pre |-> State]
  /\ UNCHANGED <<m_ip_map, nodes_created, sockets, hccs, read_descriptors,
                 m_terminate, connector, crashed, silence>>

Event(op, ip, socket) ==
  [NoEvent EXCEPT !.op = op, !.ip = ip, !.socket = socket]

(* The connector creates the sockets; a new one is connected to ip.  The
   sockets made for ip are numbered (ip - 1) * MaxSockets + 1, + 2, ... *)
UsedSockets == {s \in SockIds : sockets[s].st # "unused"}
FreeSockets(ip) ==
  {s \in SockIds : /\ (ip - 1) * MaxSockets < s /\ s <= ip * MaxSockets
                   /\ sockets[s].st = "unused"
                   /\ Cardinality(UsedSockets) < MaxSockets}
NewSocket(ip) == CHOOSE s \in FreeSockets(ip) : \A t \in FreeSockets(ip) : s <= t
WithNewSocket(S, ip) ==
  [S EXCEPT !.sockets[NewSocket(ip)] =
              [NoSocket EXCEPT !.st = "open", !.peer = ip]]

Alive == running /\ ~crashed

(* The urls of a discovery result and the token lists of --targets. *)
RECURSIVE SeqsUpTo(_, _)
SeqsUpTo(S, n) ==
  IF n = 0 THEN {<< >>}
  ELSE LET shorter == SeqsUpTo(S, n - 1)
       IN shorter \cup {Append(q, x) : q \in shorter, x \in S}

UrlLists == SeqsUpTo(Urls, MaxUrls)
TokenLists == SeqsUpTo(Tokens, MaxTargets)

(* The addresses of the urls that parse and are no broadcast UID. *)
WantedIps(urls) ==
  {urls[i].ip : i \in {j \in DOMAIN urls :
                         urls[j].wellformed /\ urls[j].uid = "device"}}

(* --------------------------- the program: main() ----------------------- *)
(* ParseOptions(): -h sets opts.help, --targets gives the text that is
   split into tokens. *)
ParseOptions(help, tokens) ==
  /\ main.pc = "options"
  /\ main' = [main EXCEPT !.pc = "help", !.help = help, !.tokens = tokens,
                          !.manual = (tokens # << >>)]
  /\ Quiet(Event("ParseOptions", NULL, NULL))
  /\ UNCHANGED <<running, stop_requested, slp>>

(* if (opts.help) DisplayHelpAndExit(argv); *)
CheckHelp ==
  /\ main.pc = "help"
  /\ main' = IF main.help THEN DisplayHelpAndExit(main)
             ELSE [main EXCEPT !.pc = "targets"]
  /\ Quiet(Event("CheckHelp", NULL, NULL))
  /\ UNCHANGED <<running, stop_requested, slp>>

(* A conversion that drops the tokens that are no address and goes on. *)
ParseTargets_SkipInvalid ==
  /\ main.pc = "targets"
  /\ main' = [main EXCEPT
                !.pc = "init",
                !.targets = SelectSeq([i \in DOMAIN main.tokens |->
                                         FromString(main.tokens[i]).ip],
                                      LAMBDA ip : ip # NULL)]
  /\ Quiet(Event("ParseTargets", NULL, NULL))
  /\ UNCHANGED <<running, stop_requested, slp>>

(* The tokens are converted in turn; the first one that is no address ends
   the process in DisplayHelpAndExit(), which calls exit(0). *)
ParseTargets ==
  /\ main.pc = "targets"
  /\ main' = IF \E i \in DOMAIN main.tokens : ~FromString(main.tokens[i]).ok
               THEN DisplayHelpAndExit(main)
               ELSE [main EXCEPT
                       !.pc = "init",
                       !.targets = [i \in DOMAIN main.tokens |->
                                      FromString(main.tokens[i]).ip]]
  /\ Quiet(Event("ParseTargets", NULL, NULL))
  /\ UNCHANGED <<running, stop_requested, slp>>

(* pid_helper.Init(), then the monitor is constructed and monitor.Init()
   starts the SLP thread. *)
StartMonitor(pid_ok, init_ok) ==
  /\ main.pc = "init"
  /\ main' = IF ~pid_ok THEN [main EXCEPT !.pc = "exited", !.exit = EX_OSFILE]
             ELSE IF ~init_ok
               THEN [main EXCEPT !.pc = "exited", !.exit = EX_UNAVAILABLE]
             ELSE [main EXCEPT !.pc = "populate"]
  /\ Quiet([Event("StartMonitor", NULL, NULL) EXCEPT !.ok = pid_ok /\ init_ok])
  /\ UNCHANGED <<running, stop_requested, slp>>

(* No targets: monitor.PopulateResponderList() asks for a discovery. *)
PopulateResponderList ==
  /\ main.pc = "populate"
  /\ main.targets = << >>
  /\ main' = [main EXCEPT !.pc = "run", !.discover = TRUE]
  /\ slp' = [slp EXCEPT !.state = "discovering"]
  /\ Quiet(Event("PopulateResponderList", NULL, NULL))
  /\ UNCHANGED <<running, stop_requested>>

(* Targets: monitor.AddIP() for the next one of them. *)
MainAddIP ==
  /\ main.pc = "populate"
  /\ main.targets # << >>
  /\ main' = [main EXCEPT
                !.targets = Tail(@),
                !.pc = IF Tail(main.targets) = << >> THEN "run" ELSE "populate"]
  /\ Apply(AddIP(State, Head(main.targets)),
           Event("AddIP", Head(main.targets), NULL))
  /\ UNCHANGED slp

(* monitor.Run() is entered; the tokens are not looked at again. *)
Run ==
  /\ main.pc = "run"
  /\ ~crashed
  /\ main' = [main EXCEPT !.pc = "running", !.tokens = << >>]
  /\ running' = TRUE
  /\ Quiet(Event("Run", NULL, NULL))
  /\ UNCHANGED <<stop_requested, slp>>

(* ------------- the program: handlers driven by its reactor ------------- *)
(* An SLP thread that runs the callback itself instead of queueing it. *)
SlpDiscovered_CallsDirectly(ok, urls) ==
  /\ slp.state = "discovering"
  /\ main.pc \in {"run", "running", "destroy", "join"}
  /\ ~crashed
  /\ slp' = [state |-> "done", ok |-> ok, urls |-> << >>]
  /\ Apply(DiscoveryCallback(State, ok, urls),
           [Event("DiscoveryCallback", NULL, NULL) EXCEPT
              !.thread = "slp", !.ok = ok, !.urls = urls,
              !.want = WantedIps(urls)])
  /\ UNCHANGED main

(* The SLP thread has its result and hands it to the reactor: the callback
   with the result is queued on the select server. *)
SlpDiscovered(ok, urls) ==
  /\ slp.state = "discovering"
  /\ main.pc \in {"run", "running", "destroy", "join"}
  /\ ~crashed
  /\ slp' = [state |-> "queued", ok |-> ok, urls |-> urls]
  /\ Quiet([Event("SlpDiscovered", NULL, NULL) EXCEPT !.thread = "slp"])
  /\ UNCHANGED <<running, stop_requested, main>>

(* The reactor runs the queued callback: DiscoveryCallback(ok, urls). *)
RunDiscoveryCallback ==
  /\ Alive
  /\ slp.state = "queued"
  /\ slp' = [slp EXCEPT !.state = "done", !.urls = << >>]
  /\ Apply(DiscoveryCallback(State, slp.ok, slp.urls),
           [Event("DiscoveryCallback", NULL, NULL) EXCEPT
              !.ok = slp.ok, !.urls = slp.urls,
              !.want = WantedIps(slp.urls)])
  /\ UNCHANGED main

(* The connector's timer fires: it issues the non-blocking connect. *)
ConnectorTimer(ip) ==
  /\ Alive
  /\ connector[ip].state = "scheduled"
  /\ Commit([State EXCEPT !.conn[ip].state = "inflight"],
            Event("ConnectorTimer", ip, NULL))

(* The connect fails or times out: the connector schedules a retry.  A run
   has at most MaxFailures failed connects. *)
RECURSIVE FailuresUpTo(_)
FailuresUpTo(n) ==
  IF n = 0 THEN 0 ELSE connector[n].failures + FailuresUpTo(n - 1)

ConnectFail(ip) ==
  /\ Alive
  /\ connector[ip].state = "inflight"
  /\ FailuresUpTo(NumAddrs) < MaxFailures
  /\ Commit([State EXCEPT !.conn[ip].state = "scheduled",
                          !.conn[ip].failures = @ + 1],
            Event("ConnectFail", ip, NULL))

(* The connect succeeds: the connector hands the socket to OnTCPConnect. *)
ConnectSuccess(ip, setup_ok) ==
  /\ Alive
  /\ connector[ip].state = "inflight"
  /\ FreeSockets(ip) # {}
  /\ Commit(OnTCPConnect(
              WithNewSocket([State EXCEPT !.conn[ip].state = "connected"], ip),
              ip, NewSocket(ip), setup_ok),
            [Event("OnTCPConnect", ip, NewSocket(ip)) EXCEPT !.ok = setup_ok])

(* The peer closes a socket of the read set: its on-close callback runs. *)
PeerClose(s, ub) ==
  /\ Alive
  /\ s \in read_descriptors
  /\ sockets[s].st = "open"
  /\ sockets[s].on_close # NULL
  /\ ub \in (IF NullSocket(m_ip_map, sockets[s].on_close)
               THEN NullOutcomes ELSE {NULL})
  /\ Commit(SocketClosed([State EXCEPT !.sockets[s].on_close = NULL],
                         sockets[s].on_close, ub),
            Event("SocketClosed", sockets[s].on_close, s))

(* The liveness deadline of an armed health check elapses. *)
HeartbeatTimeout(h, ub, ub_rd) ==
  /\ Alive
  /\ hccs[h].st = "armed"
  /\ hccs[h].since >= Deadline
  /\ ub \in (IF NullSocket(m_ip_map, hccs[h].node)
               THEN UbOutcomes ELSE {NULL})
  /\ ub_rd \in (IF NullSocket(m_ip_map, hccs[h].node)
                  THEN NullOutcomes ELSE {NULL})
  /\ Commit(SocketUnhealthy([State EXCEPT !.hccs[h].st = "unhealthy",
                                          !.hccs[h].fired = @ + 1],
                            hccs[h].node, ub, ub_rd),
            [Event("SocketUnhealthy", hccs[h].node, h) EXCEPT
               !.silence = silence[h]])

(* Bytes arrive on a socket of the read set and go through the inflators. *)
Receive(s, frame) ==
  /\ Alive
  /\ s \in read_descriptors
  /\ sockets[s].st = "open"
  /\ sockets[s].on_data
  /\ Commit(Dispatch(State, [transport |-> "TCP", source |-> sockets[s].peer],
                     frame),
            [Event("Receive", sockets[s].peer, s) EXCEPT !.frame = frame])

(* One heartbeat interval passes; a due deadline fires before time moves on. *)
Tick ==
  /\ Alive
  /\ \E h \in SockIds : hccs[h].st = "armed"
  /\ \A h \in SockIds : hccs[h].st = "armed" => hccs[h].since < Deadline
  /\ silence' = [h \in SockIds |->
                   IF hccs[h].st = "armed" THEN silence[h] + heartbeat_interval ELSE silence[h]]
  /\ hccs' = [h \in SockIds |->
                IF hccs[h].st = "armed"
                  THEN [hccs[h] EXCEPT !.since = @ + heartbeat_interval] ELSE hccs[h]]
  /\ last' = Event("Tick", NULL, NULL) @@ [pre |-> State]
  /\ UNCHANGED <<m_ip_map, nodes_created, sockets, read_descriptors,
                 m_terminate, running, stop_requested, connector, crashed,
                 main, slp>>

(* Stop() { m_ss.Terminate(); } *)
Stop ==
  /\ Alive
  /\ ~stop_requested
  /\ stop_requested' = TRUE
  /\ m_terminate' = TRUE
  /\ last' = Event("Stop", NULL, NULL) @@ [pre |-> State]
  /\ UNCHANGED <<m_ip_map, nodes_created, sockets, hccs, read_descriptors,
                 running, connector, crashed, silence, main, slp>>

(* m_ss.Run() returns once the terminate flag is seen. *)
RunExit ==
  /\ Alive
  /\ m_terminate
  /\ running' = FALSE
  /\ main' = [main EXCEPT !.pc = "destroy"]
  /\ last' = Event("RunExit", NULL, NULL) @@ [pre |-> State]
  /\ UNCHANGED <<m_ip_map, nodes_created, sockets, hccs, read_descriptors,
                 m_terminate, stop_requested, connector, crashed, silence,
                 slp>>

(* The orders in which an iterator can visit the keys of a hash map. *)
IterationOrders(map) ==
  {q \in SeqsUpTo(DOMAIN map, Cardinality(DOMAIN map)) :
     /\ Len(q) = Cardinality(DOMAIN map)
     /\ {q[i] : i \in DOMAIN q} = DOMAIN map}

(* main() returns and the destructor of the monitor starts: it deletes the
   entries and clears the map; then it waits for the SLP thread. *)
Destroy ==
  /\ main.pc = "destroy"
  /\ main' = [main EXCEPT !.pc = "join"]
  /\ \E order \in IterationOrders(m_ip_map) :
       Apply(MonitorDestructor(State, order),
             Event("~SimpleE133Monitor", NULL, NULL))
  /\ UNCHANGED slp

(* m_slp_thread.Join() returns, Cleanup() is called, the process ends. *)
JoinSlp ==
  /\ main.pc = "join"
  /\ main' = [main EXCEPT !.pc = "exited", !.exit = 0]
  /\ slp' = [slp EXCEPT !.state = "joined", !.urls = << >>]
  /\ Quiet(Event("Join", NULL, NULL))
  /\ UNCHANGED <<running, stop_requested>>

Next ==
  \/ \E help \in BOOLEAN, tokens \in TokenLists : ParseOptions(help, tokens)
  \/ CheckHelp
  \/ ParseTargets
  \/ \E pid_ok \in BOOLEAN, init_ok \in BOOLEAN : StartMonitor(pid_ok, init_ok)
  \/ PopulateResponderList
  \/ MainAddIP
  \/ Run
  \/ \E ok \in BOOLEAN, urls \in UrlLists : SlpDiscovered(ok, urls)
  \/ RunDiscoveryCallback
  \/ \E ip \in Addrs : ConnectorTimer(ip)
  \/ \E ip \in Addrs : ConnectFail(ip)
  \/ \E ip \in Addrs, ok \in BOOLEAN : ConnectSuccess(ip, ok)
  \/ \E s \in SockIds, ub \in NullOutcomes : PeerClose(s, ub)
  \/ \E h \in SockIds, ub \in UbOutcomes, ub_rd \in NullOutcomes :
       HeartbeatTimeout(h, ub, ub_rd)
  \/ \E s \in SockIds, f \in Frames : Receive(s, f)
  \/ Tick
  \/ Stop
  \/ RunExit
  \/ Destroy
  \/ JoinSlp

Spec == Init /\ [][Next]_vars

(* ------------- the handlers called directly, in any order -------------- *)
Headers == [transport : {"TCP", "UDP"}, source : Addrs]

CallAddIP(ip) ==
  /\ ~crashed
  /\ Commit(AddIP(State, ip), Event("AddIP", ip, NULL))

CallOnTCPConnect(ip, setup_ok) ==
  /\ ~crashed
  /\ FreeSockets(ip) # {}
  /\ Commit(OnTCPConnect(WithNewSocket(State, ip), ip, NewSocket(ip), setup_ok),
            [Event("OnTCPConnect", ip, NewSocket(ip)) EXCEPT !.ok = setup_ok])

(* OnTCPConnect handed no socket. *)
CallOnTCPConnectNull(ip, setup_ok) ==
  /\ ~crashed
  /\ Commit(OnTCPConnect(State, ip, NULL, setup_ok),
            [Event("OnTCPConnect", ip, NULL) EXCEPT !.ok = setup_ok])

CallSocketUnhealthy(node, ub, ub_rd) ==
  /\ ~crashed
  /\ node \in DOMAIN m_ip_map
  /\ ub \in (IF NullSocket(m_ip_map, node) THEN UbOutcomes ELSE {NULL})
  /\ ub_rd \in (IF NullSocket(m_ip_map, node) THEN NullOutcomes ELSE {NULL})
  /\ Commit(SocketUnhealthy(State, node, ub, ub_rd),
            Event("SocketUnhealthy", node, NULL))

CallSocketClosed(ip, ub) ==
  /\ ~crashed
  /\ ub \in (IF NullSocket(m_ip_map, ip) THEN NullOutcomes ELSE {NULL})
  /\ Commit(SocketClosed(State, ip, ub), Event("SocketClosed", ip, NULL))

CallE133DataReceived(header) ==
  /\ ~crashed
  /\ Commit(E133DataReceived(State, header),
            [Event("E133DataReceived", header.source, NULL) EXCEPT
               !.transport = header.transport])

NextCalls ==
  \/ \E ip \in Addrs : CallAddIP(ip)
  \/ \E ip \in Addrs, ok \in BOOLEAN : CallOnTCPConnect(ip, ok)
  \/ \E ip \in Addrs, ok \in BOOLEAN : CallOnTCPConnectNull(ip, ok)
  \/ \E node \in Addrs, ub \in UbOutcomes, ub_rd \in NullOutcomes :
       CallSocketUnhealthy(node, ub, ub_rd)
  \/ \E ip \in Addrs, ub \in NullOutcomes : CallSocketClosed(ip, ub)
  \/ \E header \in Headers : CallE133DataReceived(header)

SpecCalls == Init /\ [][NextCalls]_vars

TypeOK ==
  /\ DOMAIN m_ip_map \subseteq Addrs
  /\ read_descriptors \subseteq SockIds
  /\ m_terminate \in BOOLEAN

(* ----------------------------- properties ------------------------------ *)
(* The destructor of the monitor has not run. *)
MonitorLives == main.pc \notin {"join", "exited"}
Teardown == last.op \in {"SocketClosed", "SocketUnhealthy"}
WasTracked == Tracked(last.pre.map, last.ip)
WasUp ==
  /\ WasTracked
  /\ last.pre.map[last.ip].socket # NULL
  /\ last.pre.map[last.ip].health_checked_connection # NULL
WasDown ==
  /\ WasTracked
  /\ last.pre.map[last.ip].socket = NULL
  /\ last.pre.map[last.ip].health_checked_connection = NULL
OthersUnchanged ==
  \A b \in DOMAIN last.pre.map \ {last.ip} :
    Tracked(m_ip_map, b) /\ m_ip_map[b] = last.pre.map[b]
LiveSockets(a) == {s \in SockIds : sockets[s].st = "open" /\ sockets[s].peer = a}
LiveHccs(a) ==
  {h \in SockIds : hccs[h].st \in {"setup", "armed", "unhealthy"}
                   /\ hccs[h].node = a}

(* C1: when SocketClosed or SocketUnhealthy has run for a tracked address
   whose connection was up, the entry's health check and socket are absent
   and exactly one new connection attempt for that address has been
   scheduled with the connector (AddEndpoint re-invoked once). *)
C1_TeardownSchedulesReconnect ==
  (Teardown /\ WasUp) =>
    /\ m_ip_map[last.ip].health_checked_connection = NULL
    /\ m_ip_map[last.ip].socket = NULL
    /\ connector[last.ip].adds = last.pre.conn[last.ip].adds + 1
    /\ connector[last.ip].state = "scheduled"

(* C2: handling a peer close or a heartbeat timeout does not terminate the
   reactor (the terminate flag is set only by Stop()), and every other
   tracked peer keeps its socket, health check and attempt count. *)
C2_TransientErrorKeepsRunning ==
  /\ m_terminate => stop_requested
  /\ (Teardown /\ WasTracked) => OthersUnchanged

(* C3: for every address at most one socket that was created and not yet
   destroyed exists, and at most one health check object that was
   constructed and not yet destroyed. *)
C3_AtMostOneLiveSocketAndHcc ==
  \A a \in Addrs :
    /\ Cardinality(LiveSockets(a)) <= 1
    /\ Cardinality(LiveHccs(a)) <= 1

(* C4: in every entry of the registry a non-null health_checked_connection
   comes with a non-null socket. *)
C4_HccImpliesSocket ==
  \A ip \in DOMAIN m_ip_map :
    m_ip_map[ip].health_checked_connection # NULL => m_ip_map[ip].socket # NULL

C4_Witness ==
  /\ last.op = "OnTCPConnect" /\ ~last.ok /\ WasTracked
  /\ \E b \in DOMAIN m_ip_map : m_ip_map[b].health_checked_connection # NULL

(* C5: every address that was added maps to one NodeTCPState, which no step
   removes or replaces, and AddEndpoint was called for it exactly once: by
   the AddIP call that created the entry. *)
C5_AddIPIdempotent ==
  MonitorLives =>
    /\ \A ip \in Addrs :
         nodes_created[ip] = IF Tracked(m_ip_map, ip) THEN 1 ELSE 0
    /\ \A ip \in Addrs :
         connector[ip].adds = IF Tracked(m_ip_map, ip) THEN 1 ELSE 0
    /\ \A ip \in DOMAIN last.pre.map :
         Tracked(m_ip_map, ip) /\ m_ip_map[ip].id = last.pre.map[ip].id

C5_Witness ==
  /\ last.op = "AddIP" /\ WasTracked
  /\ m_ip_map[last.ip] = last.pre.map[last.ip]

(* C6: connection_attempts counts the connection attempts made for the
   address and never decreases: when OnTCPConnect runs after k failed
   attempts it is k + 1, and no retry of the connector remains scheduled. *)
C6_AttemptsCountEveryAttempt ==
  /\ \A ip \in DOMAIN last.pre.map \cap DOMAIN m_ip_map :
       m_ip_map[ip].connection_attempts >= last.pre.map[ip].connection_attempts
  /\ (last.op = "OnTCPConnect" /\ WasTracked) =>
       /\ m_ip_map[last.ip].connection_attempts = connector[last.ip].failures + 1
       /\ connector[last.ip].state # "scheduled"

(* C7: the unhealthy callback of a health check fires at most once, it
   fires only when HeartbeatReceived() was not invoked on that health check
   for N x interval, and an armed health check is never left unfired for
   longer than that. *)
C7_UnhealthyOnlyAfterSilence ==
  /\ \A h \in SockIds :
       /\ hccs[h].fired <= 1
       /\ hccs[h].st = "armed" => hccs[h].fired = 0 /\ silence[h] <= Deadline
  /\ last.op = "SocketUnhealthy" => last.silence = Deadline

C7_Witness ==
  /\ last.op = "SocketUnhealthy"
  /\ hccs[last.socket].fired = 1
  /\ last.silence = Deadline
  /\ \E h \in SockIds : hccs[h].st = "armed" /\ silence[h] < Deadline

(* C8: when OnTCPConnect has run for an address without a registry entry,
   the socket it was handed was closed and destroyed, no entry and no health
   check was created, the socket is not in the read set, and the registry,
   the health checks and the read set are as before; handed no socket, it
   closes nothing and leaves everything as before as well. *)
C8_UntrackedConnectDiscarded ==
  (last.op = "OnTCPConnect" /\ ~WasTracked) =>
    /\ last.socket # NULL =>
         /\ sockets[last.socket].st = "deleted"
         /\ sockets[last.socket].close_called
         /\ last.ops = <<Op("close", last.socket),
                         Op("delete_socket", last.socket)>>
         /\ last.socket \notin read_descriptors
         /\ hccs[last.socket].st = "unused"
    /\ last.socket = NULL => (last.ops = << >> /\ sockets = last.pre.sockets)
    /\ ~crashed
    /\ m_ip_map = last.pre.map
    /\ hccs = last.pre.hccs
    /\ read_descriptors = last.pre.rd
    /\ nodes_created = last.pre.nodes

C8_Witness ==
  /\ last.op = "OnTCPConnect" /\ ~WasTracked /\ last.socket # NULL
  /\ \E b \in DOMAIN m_ip_map : m_ip_map[b].socket # NULL

(* C9: SocketClosed or SocketUnhealthy run for an entry whose socket and
   health check are already absent changes no state and makes no access
   through the absent socket. *)
C9_TeardownIdempotent ==
  (Teardown /\ WasDown) =>
    /\ ~last.nullacc
    /\ ~crashed
    /\ m_ip_map = last.pre.map
    /\ sockets = last.pre.sockets
    /\ hccs = last.pre.hccs
    /\ read_descriptors = last.pre.rd
    /\ connector = last.pre.conn
    /\ m_terminate = last.pre.term

(* C10 as stated: for a decoded endpoint 0 frame exactly one of two things
   happens: a heartbeat frame has HeartbeatReceived() invoked on the health
   check of its source address and is not passed to EndpointRequest; any
   other frame is passed to EndpointRequest once, and that is all that
   happens for it: no health check is refreshed. *)
C10_HeartbeatOrPayload ==
  (last.op = "Receive" /\ last.frame.endpoint = 0
     /\ last.frame.kind # "malformed") =>
    IF last.frame.kind = "heartbeat"
      THEN /\ last.hb # NULL
           /\ last.hb = last.pre.map[last.ip].health_checked_connection
           /\ last.fwd = 0
      ELSE /\ last.hb = NULL
           /\ last.fwd = 1

(* C10, amended: every frame that decodes, heartbeat or not and whatever
   its endpoint, has HeartbeatReceived() invoked on the health check of its
   source address; an endpoint 0 frame that is not a heartbeat frame is in
   addition passed to EndpointRequest exactly once; a heartbeat frame and a
   frame for another endpoint are passed to no handler.  A frame that does
   not decode refreshes nothing and is passed to no handler. *)
C10_DataCallbackAndPayload ==
  last.op = "Receive" =>
    IF last.frame.kind = "malformed"
      THEN last.hb = NULL /\ last.fwd = 0 /\ hccs = last.pre.hccs
      ELSE /\ last.hb # NULL
           /\ last.hb = last.pre.map[last.ip].health_checked_connection
           /\ hccs[last.hb].since = 0
           /\ last.fwd = IF last.frame.endpoint = 0
                            /\ last.frame.kind # "heartbeat" THEN 1 ELSE 0

C10_Witness ==
  /\ last.op = "Receive"
  /\ last.frame = [endpoint |-> 0, kind |-> "data"]
  /\ last.fwd = 1
  /\ last.hb # NULL
  /\ hccs[last.hb].since = 0
  /\ last.pre.hccs[last.hb].since > 0

(* C11: a discovery result is applied to the registry only by the reactor:
   a step of the SLP thread changes neither the registry nor the connector
   nor any socket or health check; DiscoveryCallback runs as one handler of
   the running reactor on the thread of Run(), and when it has run the
   whole result is applied and nothing of it is left queued.  Until it has
   run nothing of the result is in the registry. *)
C11_DiscoveryOnReactorThread ==
  /\ last.thread = "slp" =>
       /\ m_ip_map = last.pre.map
       /\ nodes_created = last.pre.nodes
       /\ connector = last.pre.conn
       /\ sockets = last.pre.sockets
       /\ hccs = last.pre.hccs
       /\ read_descriptors = last.pre.rd
  /\ last.op = "DiscoveryCallback" =>
       /\ last.thread = "main"
       /\ running
       /\ slp.state = "done" /\ slp.urls = << >>
       /\ last.ok => last.want \subseteq DOMAIN m_ip_map
  /\ slp.state \in {"discovering", "queued"} => m_ip_map = << >>

C11_Witness ==
  /\ last.op = "DiscoveryCallback" /\ last.ok
  /\ Cardinality(last.want) = 2
  /\ DOMAIN m_ip_map = last.want
  /\ last.pre.map = << >>

(* C12: a list of manual targets is taken as a whole and replaces the
   discovery.  With targets given no discovery is ever requested.  If a
   token of the list is no address, no address is ever tracked, no entry is
   made and no connection attempt is registered, and once the tokens were
   converted the process has ended with the usage message.  If all tokens
   are addresses then, when main() is about to call Run(), exactly the
   addresses of the tokens are tracked, each one registered with the
   connector once. *)
C12_ManualTargetsAllOrNothing ==
  /\ main.manual =>
       ~main.discover /\ slp.state \notin {"discovering", "queued", "done"}
  /\ (\E i \in DOMAIN main.tokens : ~FromString(main.tokens[i]).ok) =>
       /\ m_ip_map = << >>
       /\ \A a \in Addrs : connector[a] = NoEndpoint /\ nodes_created[a] = 0
       /\ ~running
       /\ main.pc \in {"help", "targets", "exited"}
       /\ main.pc = "exited" => main.usage
  /\ (main.manual /\ main.pc = "run") =>
       /\ DOMAIN m_ip_map =
            {FromString(main.tokens[i]).ip : i \in DOMAIN main.tokens}
       /\ \A ip \in DOMAIN m_ip_map :
            connector[ip].adds = 1 /\ connector[ip].state = "scheduled"
  /\ main.usage =>
       /\ main.pc = "exited" /\ main.exit = 0
       /\ m_ip_map = << >>
       /\ \A a \in Addrs : connector[a] = NoEndpoint
       /\ ~main.discover

C12_Witness ==
  /\ main.manual /\ main.pc = "run" /\ ~main.help
  /\ Len(main.tokens) = 2
  /\ Cardinality(DOMAIN m_ip_map) = 2
  /\ last.op = "AddIP"

(* C13: when Setup() of the new health check fails in OnTCPConnect for a
   tracked address, the handler destroys the new health check, then closes
   and destroys the socket and resets the socket of the entry to NULL; it
   wires no on-close or on-data callback and does not add the socket to
   the read set; the entry's health check slot and the terminate flag are
   as before and the reactor goes on running. *)
C13_SetupFailureCleansUp ==
  (last.op = "OnTCPConnect" /\ ~last.ok /\ WasTracked) =>
    /\ hccs[last.socket].st = "deleted"
    /\ sockets[last.socket].st = "deleted"
    /\ sockets[last.socket].close_called
    /\ m_ip_map[last.ip].socket = NULL
    /\ m_ip_map[last.ip].health_checked_connection =
         last.pre.map[last.ip].health_checked_connection
    /\ last.socket \notin read_descriptors
    /\ read_descriptors = last.pre.rd
    /\ \A i \in DOMAIN last.ops :
         last.ops[i].op \notin {"set_on_close", "set_on_data", "add_rd"}
    /\ m_terminate = last.pre.term
    /\ ~crashed
    /\ running

C13_Witness ==
  /\ last.op = "OnTCPConnect" /\ ~last.ok /\ WasTracked
  /\ last.ops = <<Op("new_hcc", last.socket), Op("delete_hcc", last.socket),
                  Op("close", last.socket), Op("delete_socket", last.socket)>>
  /\ ~m_terminate

(* The positions in the operations of the last handler. *)
Positions(name, id) == {i \in DOMAIN last.ops : last.ops[i] = Op(name, id)}
SetupFailed == last.op = "OnTCPConnect" /\ ~last.ok /\ WasTracked

(* C14: in a teardown (SocketClosed after a peer close, SocketUnhealthy
   after a heartbeat timeout, the Setup() failure in OnTCPConnect) a socket
   is destroyed only after its health check, if it has or had one, was
   destroyed and after it was taken out of the read set, if it was in it;
   the health check is destroyed before the removal from the read set and
   before the socket is closed.  The teardown of a connection that was up
   is exactly: destroy the health check, remove the socket from the read
   set, destroy the socket. *)
C14_TeardownOrder ==
  /\ (Teardown \/ SetupFailed) =>
       \A j \in DOMAIN last.ops :
         last.ops[j].op = "delete_socket" =>
           LET s == last.ops[j].id
               before(name) == {i \in Positions(name, s) : i < j}
           IN /\ s \in last.pre.rd => before("remove_rd") # {}
              /\ Positions("add_rd", s) = {}
              /\ (last.pre.hccs[s].st \in {"setup", "armed", "unhealthy"}
                    \/ Positions("new_hcc", s) # {})
                   => before("delete_hcc") # {}
              /\ \A h \in Positions("delete_hcc", s) :
                   /\ h < j
                   /\ \A r \in Positions("remove_rd", s) : h < r /\ r < j
                   /\ \A c \in Positions("close", s) : h < c /\ c < j
              /\ hccs[s].st \in {"unused", "deleted"}
              /\ s \notin read_descriptors
  /\ (Teardown /\ WasUp) =>
       LET s == last.pre.map[last.ip].socket
       IN last.ops = <<Op("delete_hcc",
                          last.pre.map[last.ip].health_checked_connection),
                       Op("remove_rd", s), Op("delete_socket", s)>>

C14_Witness ==
  /\ Teardown /\ WasUp
  /\ Len(last.ops) = 3
  /\ last.ops[3] = Op("delete_socket", last.pre.map[last.ip].socket)
  /\ last.pre.map[last.ip].socket \in last.pre.rd

(* C15: when SocketUnhealthy has run for the entry of an address whose
   connection was up, the registry, the sockets, the read set, the
   connector, the terminate flag and which health checks exist are what
   SocketClosed for that address gives from the same state; the entries,
   sockets and health checks of the other addresses are as before. *)
C15_UnhealthyAsClosed ==
  (last.op = "SocketUnhealthy" /\ WasUp) =>
    LET closed == SocketClosed(last.pre, last.ip, NULL)
    IN /\ m_ip_map = closed.map
       /\ sockets = closed.sockets
       /\ read_descriptors = closed.rd
       /\ connector = closed.conn
       /\ m_terminate = closed.term
       /\ crashed = closed.crashed
       /\ \A h \in SockIds : hccs[h].st = closed.hccs[h].st
       /\ OthersUnchanged
       /\ \A s \in SockIds \ {last.pre.map[last.ip].socket} :
            /\ sockets[s] = last.pre.sockets[s]
            /\ s \in read_descriptors <=> s \in last.pre.rd
       /\ \A h \in SockIds \ {last.pre.map[last.ip].health_checked_connection} :
            hccs[h] = last.pre.hccs[h]

C15_Witness ==
  /\ last.op = "SocketUnhealthy" /\ WasUp
  /\ m_ip_map[last.ip].socket = NULL
  /\ \E b \in DOMAIN m_ip_map \ {last.ip} :
       /\ m_ip_map[b].socket # NULL
       /\ m_ip_map[b].socket \in read_descriptors

(* C16: E133DataReceived for a header with source A invokes
   HeartbeatReceived() on the health check of A's entry if the transport is
   TCP, A is tracked and the entry has a health check, and on no health
   check otherwise; in every case the registry (sockets, health check
   slots, attempt counts), the sockets, the read set, the connector and
   every other health check are as before. *)
C16_DataReceivedFrame ==
  last.op = "E133DataReceived" =>
    /\ last.hb =
         IF /\ last.transport = "TCP"
            /\ WasTracked
            /\ last.pre.map[last.ip].health_checked_connection # NULL
           THEN last.pre.map[last.ip].health_checked_connection
           ELSE NULL
    /\ m_ip_map = last.pre.map
    /\ nodes_created = last.pre.nodes
    /\ sockets = last.pre.sockets
    /\ read_descriptors = last.pre.rd
    /\ connector = last.pre.conn
    /\ m_terminate = last.pre.term
    /\ \A h \in SockIds \ {last.hb} : hccs[h] = last.pre.hccs[h]

C16_Witness ==
  /\ last.op = "E133DataReceived"
  /\ last.transport = "UDP"
  /\ WasTracked
  /\ m_ip_map[last.ip].health_checked_connection # NULL
  /\ last.hb = NULL
  /\ \E b \in DOMAIN m_ip_map \ {last.ip} :
       m_ip_map[b].health_checked_connection # NULL

(* C17: when DiscoveryCallback has run with a successful result, the
   tracked addresses are those tracked before and the addresses of the urls
   that parse and carry no broadcast UID, wherever in the list they stand;
   each newly tracked one has one entry with one attempt counted and is
   registered with the connector once; the address of a url with a
   broadcast UID is not tracked on its account.  With a failed result the
   registry and the connector are as before. *)
C17_DiscoveryTracksValid ==
  last.op = "DiscoveryCallback" =>
    IF last.ok
      THEN /\ DOMAIN m_ip_map =
                DOMAIN last.pre.map
                  \cup {last.urls[i].ip :
                          i \in {j \in DOMAIN last.urls :
                                   /\ last.urls[j].wellformed
                                   /\ last.urls[j].uid # "broadcast"}}
           /\ \A ip \in DOMAIN m_ip_map \ DOMAIN last.pre.map :
                /\ nodes_created[ip] = 1
                /\ m_ip_map[ip] =
                     [NodeTCPState(1) EXCEPT !.connection_attempts = 1]
                /\ connector[ip] =
                     [NoEndpoint EXCEPT !.state = "scheduled", !.adds = 1]
           /\ \A ip \in Addrs \ DOMAIN m_ip_map :
                connector[ip] = NoEndpoint /\ nodes_created[ip] = 0
      ELSE /\ m_ip_map = last.pre.map
           /\ connector = last.pre.conn
           /\ nodes_created = last.pre.nodes

C17_Witness ==
  /\ last.op = "DiscoveryCallback" /\ last.ok
  /\ Len(last.urls) = 2
  /\ ~last.urls[1].wellformed
  /\ last.urls[2].wellformed /\ last.urls[2].uid = "device"
  /\ DOMAIN m_ip_map = {last.urls[2].ip}

(* C18: a teardown leaves no timer and no callback of the connection
   behind.  After SocketClosed, SocketUnhealthy or a failed Setup() for an
   address no health check of that address exists.  While the monitor
   lives, every armed health check is the one stored in the entry of its
   address, next to its open socket, and every socket with an on-close
   callback is the open socket stored in the entry of its peer.  So
   SocketUnhealthy runs only for an entry whose socket is present and whose
   health check is the one that fired, and the on-close handler runs only
   for the open socket of the entry. *)
C18_NoTimerAfterTeardown ==
  /\ ((Teardown \/ SetupFailed) /\ WasTracked) =>
       /\ LiveHccs(last.ip) = {}
       /\ \A s \in SockIds :
            sockets[s].peer = last.ip => sockets[s].on_close = NULL
  /\ MonitorLives =>
       /\ \A h \in SockIds :
            hccs[h].st \in {"armed", "unhealthy"} =>
              /\ Tracked(m_ip_map, hccs[h].node)
              /\ m_ip_map[hccs[h].node].health_checked_connection = h
              /\ m_ip_map[hccs[h].node].socket = hccs[h].socket
              /\ sockets[hccs[h].socket].st = "open"
       /\ \A s \in SockIds :
            sockets[s].on_close # NULL =>
              /\ sockets[s].st = "open"
              /\ Tracked(m_ip_map, sockets[s].on_close)
              /\ m_ip_map[sockets[s].on_close].socket = s
  /\ last.op = "SocketUnhealthy" =>
       /\ ~last.nullacc
       /\ WasUp
       /\ last.pre.map[last.ip].health_checked_connection = last.socket
       /\ last.pre.hccs[last.socket].st = "armed"
  /\ last.op = "SocketClosed" =>
       /\ WasUp
       /\ last.pre.map[last.ip].socket = last.socket
       /\ last.pre.sockets[last.socket].st = "open"

C18_Witness ==
  /\ last.op = "SocketClosed" /\ WasUp
  /\ last.pre.hccs[last.socket].st = "armed"
  /\ last.pre.hccs[last.socket].since > 0
  /\ hccs[last.socket].st = "deleted"
  /\ running

(* C19: a health check never outlives its socket: whenever a health check
   exists (constructed and not destroyed), the socket it monitors exists
   too, on every path that destroys sockets, the destruction of the monitor
   with its NodeTCPState entries included. *)
C19_HccNeverOutlivesSocket ==
  \A h \in SockIds :
    hccs[h].st \in {"setup", "armed", "unhealthy"} =>
      sockets[hccs[h].socket].st = "open"

(* C20: while the monitor lives, at every handler boundary the read set is
   the set of the sockets stored in a registry entry together with a
   health check; each of them is open and has its on-close and on-data
   callbacks.  A handler adds a socket to the read set only after Setup()
   succeeded and the callbacks were set, and destroys a socket that was in
   the read set only after removing it. *)
C20_ReadSetIsConnectedSockets ==
  MonitorLives =>
    /\ read_descriptors =
         {m_ip_map[ip].socket :
            ip \in {a \in DOMAIN m_ip_map :
                      /\ m_ip_map[a].socket # NULL
                      /\ m_ip_map[a].health_checked_connection # NULL}}
    /\ \A s \in read_descriptors :
         /\ sockets[s].st = "open"
         /\ sockets[s].on_close = sockets[s].peer
         /\ sockets[s].on_data
         /\ hccs[s].st = "armed"
    /\ \A j \in DOMAIN last.ops :
         LET s == last.ops[j].id
             before(name) == {i \in Positions(name, s) : i < j}
         IN /\ last.ops[j].op = "add_rd" =>
                 /\ last.ok
                 /\ before("new_hcc") # {}
                 /\ before("set_on_close") # {}
                 /\ before("set_on_data") # {}
            /\ (last.ops[j].op = "delete_socket" /\ s \in last.pre.rd) =>
                 before("remove_rd") # {}

C20_Witness ==
  /\ last.op = "SocketClosed" /\ WasUp
  /\ last.pre.map[last.ip].socket \in last.pre.rd
  /\ Cardinality(read_descriptors) = 1
  /\ Cardinality(last.pre.rd) = 2
  /\ MonitorLives

====
